---- MODULE Spec2Model ----
(***************************************************************************)
(* Print Sheets from Excel (pyRevit push button): the print window, its    *)
(* scheduler, the print run, the CSV print ledger and the per-sheet export *)
(* loop, as a state machine.                                               *)
(*                                                                         *)
(* All handlers run on the UI thread.  A handler that shows a dialog or a  *)
(* progress bar pumps the message loop, so other handlers (timer ticks,    *)
(* button clicks) can run nested inside it; the nested handler finishes    *)
(* before the outer one continues.  This is modelled by a stack of frames: *)
(* only the top frame steps, and new handlers are pushed only when the     *)
(* stack is empty or the top frame is waiting in a dialog / progress bar.  *)
(*                                                                         *)
(* Text is a sequence of one-character tokens; a file extension (".pdf",   *)
(* ".dwg") is one token.  Time is in seconds.                              *)
(*                                                                         *)
(* The three cleanup push buttons (Clean Design Options, Delete Detail     *)
(* Lines Groups, Delete Ungrouped Elements) are scripts of their own over  *)
(* the active document; they share no state with the print window.         *)
(***************************************************************************)
EXTENDS Integers, Sequences, FiniteSets, TLC

\* ------------------------------------------------------------------ bounds
MaxTime == 180      \* the clock stops advancing after this many seconds
MaxMinute == 3      \* largest MM the user types into the schedule time box
MaxJobs == 2        \* number of jobs schedule_print installs in one behaviour
MaxDepth == 2       \* nested event handlers (frames pushed by events)
MaxSheets == 2      \* length of the window's sheet list

\* ------------------------------------------------------------------- text
Exts == {".pdf", ".dwg"}

RECURSIVE LStripChars(_, _)
LStripChars(t, cs) ==
    IF t /= <<>> /\ Head(t) \in cs THEN LStripChars(Tail(t), cs) ELSE t

RECURSIVE RStripChars(_, _)
RStripChars(t, cs) ==
    IF t /= <<>> /\ t[Len(t)] \in cs
    THEN RStripChars(SubSeq(t, 1, Len(t) - 1), cs) ELSE t

\* normalize_match_text: None -> '', strip(), lstrip(BOM); NFC changes no
\* token of the alphabet used here.
normalize_match_text(value) ==
    LStripChars(RStripChars(LStripChars(value, {" "}), {" "}), {"BOM"})

\* os.path.splitext: <<root, ext>>
splitext(f) ==
    IF f /= <<>> /\ f[Len(f)] \in Exts /\ Len(f) > 1
    THEN <<SubSeq(f, 1, Len(f) - 1), <<f[Len(f)]>> >>
    ELSE <<f, <<>> >>

_ensure_pdf_extension(value) ==
    IF value = <<>> THEN value
    ELSE LET v == IF value[Len(value)] = ".dwg"
                  THEN SubSeq(value, 1, Len(value) - 1) ELSE value
         IN IF v = <<>> \/ v[Len(v)] /= ".pdf" THEN v \o <<".pdf">> ELSE v

\* coreutils.cleanup_filename(value, windows_safe=True): drops \/:*?"<>|
cleanup_filename(value) ==
    SelectSeq(value, LAMBDA c : c \notin {"\\", "/", ":", "*", "?", "\"", "<", ">", "|"})

\* ----------------------------------------------------------------- sheets
\* The host document's sheets (ViewSheet.Name, .SheetNumber, .CanBePrinted).
\* Sheets 1 and 2 share a name; sheet 3's name ends in a blank; sheet 4 is a
\* placeholder sheet that can not be printed; sheet 6's number holds a "/".
SheetIds == 1 .. 7

SheetName(s) ==
    CASE s \in {1, 2} -> <<"A">>
      [] s = 3 -> <<"B", " ">>
      [] s = 4 -> <<"C">>
      [] s = 5 -> <<"D">>
      [] s = 6 -> <<"E">>
      [] OTHER -> <<"F">>

SheetNumber(s) == IF s = 6 THEN <<"6", "/">> ELSE <<ToString(s)>>

CanBePrinted(s) == s /= 4

NoDups(q) == \A i, j \in 1 .. Len(q) : i /= j => q[i] /= q[j]

Reverse(q) == [i \in 1 .. Len(q) |-> q[Len(q) + 1 - i]]

IndexOf(q, x) == CHOOSE i \in 1 .. Len(q) : q[i] = x

\* --------------------------------------------------------- naming formats
\* A template is a sequence of tokens; a "{key}" token is a formatter.
BuiltinTemplate == <<"{index}", " ", "{number}", " ", "{name}", ".pdf">>
NameOnlyTemplate == <<"{name}", ".pdf">>
UnknownKeyTemplate == <<"{nmae}", ".pdf">>
NamingTemplates == {BuiltinTemplate, NameOnlyTemplate, UnknownKeyTemplate}

UnknownKeys == {"{nmae}"}

NoRow == [PrintFileName |-> <<>>, DrawingName |-> <<>>, DrawingNumber |-> <<>>]

ExcelPrintRow(file_name, drawing_name, drawing_number) ==
    [PrintFileName |-> file_name, DrawingName |-> drawing_name,
     DrawingNumber |-> drawing_number]

\* str.format over the fixed formatters of _update_print_filename
RECURSIVE FormatTokens(_, _, _, _)
FormatTokens(template, s, index, excel_row) ==
    IF template = <<>> THEN <<>>
    ELSE LET tok == Head(template)
             val == CASE tok = "{index}" -> index
                      [] tok = "{number}" -> SheetNumber(s)
                      [] tok = "{name}" -> SheetName(s)
                      [] tok = "{excel_name}" -> excel_row.DrawingName
                      [] tok = "{excel_number}" -> excel_row.DrawingNumber
                      [] OTHER -> <<tok>>
         IN val \o FormatTokens(Tail(template), s, index, excel_row)

\* _update_print_filename: the formatted name, or on a format error the
\* ledger's name (else ''), through the print_filename setter.
_update_print_filename(template, s, index, excel_row) ==
    LET failed == \E i \in 1 .. Len(template) : template[i] \in UnknownKeys
        output_fname ==
            IF ~failed THEN FormatTokens(template, s, index, excel_row)
            ELSE IF excel_row /= NoRow /\ excel_row.PrintFileName /= <<>>
                 THEN _ensure_pdf_extension(excel_row.PrintFileName)
                 ELSE <<>>
    IN cleanup_filename(output_fname)

\* _get_excel_row: by name first, then by number
_get_excel_row(s, rows) ==
    LET sheet_name_key == normalize_match_text(SheetName(s))
        sheet_number_key == normalize_match_text(SheetNumber(s))
    IN IF sheet_name_key \in DOMAIN rows.by_name THEN rows.by_name[sheet_name_key]
       ELSE IF sheet_number_key \in DOMAIN rows.by_number
            THEN rows.by_number[sheet_number_key]
            ELSE NoRow

\* --------------------------------------------------------- the CSV ledger
EmptyRows == [by_name |-> <<>>, by_number |-> <<>>]

MapPut(m, k, v) == [x \in DOMAIN m \cup {k} |-> IF x = k THEN v ELSE m[x]]

\* ExcelDatabase._read_print_rows_csv: rows without a drawing name are dropped
RECURSIVE _read_print_rows_csv(_)
_read_print_rows_csv(disk) ==
    IF disk = <<>> THEN <<>>
    ELSE LET r == Head(disk)
             drawing_name == normalize_match_text(r.DrawingName)
             rest == _read_print_rows_csv(Tail(disk))
         IN IF drawing_name = <<>> THEN rest
            ELSE <<ExcelPrintRow(normalize_match_text(r.PrintFileName), drawing_name,
                                 normalize_match_text(r.DrawingNumber))>> \o rest

\* _load_excel_rows, lines 1663-1669: the first row of a name / number wins
RECURSIVE IndexRows(_, _)
IndexRows(rows, acc) ==
    IF rows = <<>> THEN acc
    ELSE LET row == Head(rows)
             nk == normalize_match_text(row.DrawingName)
             uk == normalize_match_text(row.DrawingNumber)
             bn == IF nk /= <<>> /\ nk \notin DOMAIN acc.by_name
                   THEN MapPut(acc.by_name, nk, row) ELSE acc.by_name
             bu == IF uk /= <<>> /\ uk \notin DOMAIN acc.by_number
                   THEN MapPut(acc.by_number, uk, row) ELSE acc.by_number
         IN IndexRows(Tail(rows), [by_name |-> bn, by_number |-> bu])

\* _write_excel_report, lines 2963-2975: the ledger's file-name value(s) of a
\* sheet (a CSV target carries one row per exported file)
FileNameValue(base_name, include_ext, pdf_enabled, dwg_enabled) ==
    IF include_ext
    THEN IF pdf_enabled /\ dwg_enabled
         THEN <<base_name \o <<".pdf">>, base_name \o <<".dwg">> >>
         ELSE IF dwg_enabled THEN <<base_name \o <<".dwg">> >>
              ELSE <<base_name \o <<".pdf">> >>
    ELSE <<base_name>>

\* _write_excel_report, lines 2954-2980: name_map and number_map; a later
\* target sheet overwrites the entry of an earlier one with the same key
RECURSIVE BuildMaps(_, _, _, _)
BuildMaps(target_sheets, names, opts, acc) ==
    IF target_sheets = <<>> THEN acc
    ELSE LET sheet == Head(target_sheets)
             sheet_name_key == normalize_match_text(SheetName(sheet))
             sheet_number_key == normalize_match_text(SheetNumber(sheet))
             base_name == normalize_match_text(splitext(names[sheet])[1])
             value == FileNameValue(base_name, opts.include_ext, opts.pdf, opts.dwg)
             next == IF names[sheet] = <<>> THEN acc
                     ELSE [name_map |-> MapPut(acc.name_map, sheet_name_key, value),
                           number_map |->
                               IF sheet_number_key /= <<>>
                               THEN MapPut(acc.number_map, sheet_number_key, value)
                               ELSE acc.number_map]
         IN BuildMaps(Tail(target_sheets), names, opts, next)

\* _collect_revit_sheets: the targets' sheets, each once
RECURSIVE _collect_revit_sheets(_, _)
_collect_revit_sheets(target_sheets, seen) ==
    IF target_sheets = <<>> THEN <<>>
    ELSE IF Head(target_sheets) \in seen
         THEN _collect_revit_sheets(Tail(target_sheets), seen)
         ELSE <<Head(target_sheets)>>
              \o _collect_revit_sheets(Tail(target_sheets), seen \cup {Head(target_sheets)})

\* _generate_or_update_csv, lines 372-376: the first row of each drawing name
RECURSIVE FirstRowPerName(_, _)
FirstRowPerName(rows, seen) ==
    IF rows = <<>> THEN <<>>
    ELSE LET key == normalize_match_text(Head(rows).DrawingName)
         IN IF key /= <<>> /\ key \notin seen
            THEN <<Head(rows)>> \o FirstRowPerName(Tail(rows), seen \cup {key})
            ELSE FirstRowPerName(Tail(rows), seen)

MappedRows(values, drawing_name, drawing_number) ==
    [i \in 1 .. Len(values) |-> ExcelPrintRow(values[i], drawing_name, drawing_number)]

\* _generate_or_update_csv, lines 378-406: one pass per sheet; the rows of the
\* sheet's drawing name are replaced by the sheet's row(s)
RECURSIVE UpdateRows(_, _, _, _)
UpdateRows(ordered_rows, sheets, name_map, number_map) ==
    IF sheets = <<>> THEN ordered_rows
    ELSE LET view_sheet == Head(sheets)
             drawing_name == normalize_match_text(SheetName(view_sheet))
             drawing_number == normalize_match_text(SheetNumber(view_sheet))
             default_file_name == drawing_number \o <<"_">> \o drawing_name
             mapped_name ==
                 IF drawing_name \in DOMAIN name_map THEN name_map[drawing_name]
                 ELSE IF drawing_number \in DOMAIN number_map
                      THEN number_map[drawing_number] ELSE <<>>
             normalized == [i \in 1 .. Len(mapped_name) |->
                               normalize_match_text(mapped_name[i])]
             nonempty == SelectSeq(normalized, LAMBDA x : x /= <<>>)
             mapped_values == IF nonempty = <<>> THEN <<default_file_name>> ELSE nonempty
             kept == SelectSeq(ordered_rows,
                         LAMBDA r : normalize_match_text(r.DrawingName) /= drawing_name)
             next == IF drawing_name = <<>> THEN ordered_rows
                     ELSE kept \o MappedRows(mapped_values, drawing_name, drawing_number)
         IN UpdateRows(next, Tail(sheets), name_map, number_map)

\* ExcelDatabase._generate_or_update_csv: the rows the file holds afterwards
_generate_or_update_csv(disk, sheets, name_map, number_map) ==
    UpdateRows(FirstRowPerName(_read_print_rows_csv(disk), {}), sheets, name_map, number_map)

\* ------------------------------------------------------------------ state
VARIABLES
    now,                  \* DateTime.Now, in seconds
    job,                  \* PrintScheduler._job (NoJob for None)
    timerOn,              \* the DispatcherTimer is running
    idlingOn,             \* on_idling is attached to UIApplication.Idling
    status,               \* schedule_status_tb.Text
    suppress_csv_popups,  \* PrintSheetsWindow._suppress_csv_popups
    scheduled_execution,  \* PrintSheetsWindow._scheduled_execution
    winOpen,              \* the print window is open
    stack,                \* handlers in progress, innermost last
    ui,                   \* the window's controls
    env,                  \* the host document and the ledger file's access
    scheduled_sheets,     \* PrintSheetsWindow._scheduled_sheets
    names,                \* ViewSheetListItem.print_filename of every sheet
    excel_rows,           \* _excel_rows_by_name / _excel_rows_by_number
    ledger,               \* the CSV file on disk
    files,                \* files in the output folders, <<folder, name>>
    nextJobId,            \* identity of the next ScheduledJob object
    startCount,           \* history: how often each job's run was started
    startLog,             \* history: [id, at, RunAt] of every start
    replaced,             \* history: pending jobs replaced by set_job
    cancelled,            \* history: pending jobs dropped by cancel_job
    alerts,               \* the forms.alert calls of the latest step that made any
    overwritten,          \* history: exports onto a file that existed
    revit_doc,            \* revit.doc of the cleanup scripts: open, and its elements
    cleanup,              \* the cleanup script in progress and its locals
    transactions          \* history: the transactions started on revit_doc

vars == <<now, job, timerOn, idlingOn, status, suppress_csv_popups,
          scheduled_execution, winOpen, stack, ui, env, scheduled_sheets, names,
          excel_rows, ledger, files, nextJobId, startCount, startLog, replaced,
          cancelled, alerts, overwritten, revit_doc, cleanup, transactions>>

schedVars == <<job, timerOn, idlingOn, status, suppress_csv_popups, nextJobId,
               startCount, startLog, replaced, cancelled>>
printVars == <<scheduled_execution, names, excel_rows, ledger, files, overwritten>>
\* the host beside the print window: its documents and the cleanup scripts
hostVars == <<env, revit_doc, cleanup, transactions>>
confVars == <<ui, hostVars, scheduled_sheets>>

NoJob == [id |-> 0, RunAt |-> 0, TargetSheets |-> <<>>, IsRunning |-> FALSE,
          RemindersShown |-> {}]

\* ScheduledJob.__init__
ScheduledJob(id, run_at, target_sheets) ==
    [id |-> id, RunAt |-> run_at, TargetSheets |-> target_sheets,
     IsRunning |-> FALSE, RemindersShown |-> {}]

Text(t) == [text |-> t, arg |-> 0]
TextArg(t, n) == [text |-> t, arg |-> n]

Top == stack[Len(stack)]
Pop == SubSeq(stack, 1, Len(stack) - 1)
Idle == stack = <<>>
Pumping == stack /= <<>> /\ Top.wait /= "none"

\* A handler in progress.
Frame(kind, pc, wait, sched, jobId, targets, input) ==
    [kind |-> kind, pc |-> pc, wait |-> wait, sched |-> sched, jobId |-> jobId,
     targets |-> targets, input |-> input, i |-> 0, inTry |-> FALSE,
     prevSuppress |-> suppress_csv_popups, prevSchedExec |-> FALSE,
     wrote |-> "none", sync |-> "none", exports |-> {}, dir |-> 0,
     cancelled |-> FALSE]

NoInput == [date |-> "none", parts |-> <<>>]

Alert(kind, sched) == [kind |-> kind, sched |-> sched]

\* forms.alert of each kind of kinds, from a scheduled run or not
Show(kinds, sched) ==
    IF kinds = {} THEN alerts ELSE {Alert(k, sched) : k \in kinds}

\* ------------------------------------------------------- window properties
has_job == job /= NoJob

\* options_changed, lines 2488-2502: the list the window shows
SheetListOf(u, sheets) ==
    LET sheet_list == IF u.reverse THEN Reverse(sheets) ELSE sheets
    IN IF ~u.show_placeholders THEN SelectSeq(sheet_list, CanBePrinted) ELSE sheet_list

sheet_list == SheetListOf(ui, scheduled_sheets)

\* _update_schedule_status
_update_schedule_status(j) ==
    IF j /= NoJob THEN TextArg("Scheduled for", j.RunAt) ELSE Text("No schedule")

\* _update_combine_option and options_changed, lines 2453-2480: the controls
\* the refresh itself changes
OptionsChangedUi(u, e) ==
    LET c1 == IF ~u.pdf \/ e.doc.IsLinked \/ e.variable_paper THEN FALSE ELSE u.combine
        d1 == IF c1 \/ e.doc.IsLinked THEN FALSE ELSE u.dwg
        c2 == IF ~u.pdf THEN FALSE ELSE c1
    IN [u EXCEPT !.combine = c2, !.dwg = d1,
                 !.include_placeholders = IF u.show_placeholders THEN TRUE ELSE @]

\* _update_print_indices as options_changed applies it, lines 2483-2502
PrintIndex(u, sheets, s) ==
    LET all == IF u.reverse THEN Reverse(sheets) ELSE sheets
        printable == SelectSeq(all, CanBePrinted)
        pos == IF ~u.show_placeholders /\ ~u.include_placeholders /\ CanBePrinted(s)
               THEN IndexOf(printable, s) ELSE IndexOf(all, s)
    IN <<ToString(pos - 1 + u.index_start)>>

\* _update_print_filenames: the ledger's name of the sheet, when it has one,
\* is the template
PrintFilename(u, sheets, rows, s) ==
    LET excel_row == _get_excel_row(s, rows)
        sheet_template ==
            _ensure_pdf_extension(
                IF excel_row /= NoRow /\ excel_row.PrintFileName /= <<>>
                THEN excel_row.PrintFileName ELSE u.template)
    IN _update_print_filename(sheet_template, s, PrintIndex(u, sheets, s), excel_row)

\* options_changed: print_filename of every sheet of _scheduled_sheets
OptionsChangedNames(u, sheets, rows, old) ==
    [s \in SheetIds |->
        IF \E i \in 1 .. Len(sheets) : sheets[i] = s
        THEN PrintFilename(u, sheets, rows, s) ELSE old[s]]

\* ---------------------------------------------------------- the scheduler
\* PrintScheduler._get_due_reminder_mark (0 for None)
_get_due_reminder_mark(j, remaining_seconds) ==
    IF remaining_seconds <= 0 THEN 0
    ELSE IF remaining_seconds <= 10
         THEN IF remaining_seconds \notin j.RemindersShown THEN remaining_seconds ELSE 0
         ELSE IF remaining_seconds <= 60
              THEN LET m0 == ((remaining_seconds + 9) \div 10) * 10
                       m1 == IF m0 < 20 THEN 20 ELSE m0
                       mark == IF m1 > 60 THEN 60 ELSE m1
                   IN IF mark \notin j.RemindersShown THEN mark ELSE 0
              ELSE IF remaining_seconds <= 300 /\ 300 \notin j.RemindersShown
                   THEN 300 ELSE 0

\* PrintScheduler._handle_reminders with _show_schedule_reminder
_handle_reminders ==
    LET mark == _get_due_reminder_mark(job, job.RunAt - now)
    IN /\ IF mark = 0
          THEN UNCHANGED <<job, status>>
          ELSE /\ status' = TextArg("Scheduled print starts in", mark)
               /\ job' = [job EXCEPT !.RemindersShown = @ \cup {mark}]
       /\ UNCHANGED <<now, timerOn, idlingOn, suppress_csv_popups, winOpen, stack,
                      nextJobId, startCount, startLog, replaced, cancelled, alerts>>
       /\ UNCHANGED <<printVars, confVars>>

\* a poll that takes every pending job for due
DueAlways(j, t) == TRUE

\* _process_schedule, line 3134: the job is due
Due(j, t) == ~(t < j.RunAt)

\* a scheduler that keeps the job it starts, as pending as before
TakeJobKeepPending(j) == [j EXCEPT !.IsRunning = FALSE]

\* _process_schedule, lines 3136-3138: the scheduler lets go of the job it
\* starts (job = self._job; self._job = None)
TakeJob(j) == NoJob

\* _process_schedule, lines 3137-3144: the job's run begins
StartScheduledRun ==
    /\ job' = TakeJob([job EXCEPT !.IsRunning = TRUE])
    /\ status' = Text("Running scheduled print...")
    /\ suppress_csv_popups' = TRUE
    /\ stack' = Append(stack, Frame("run", "validate", "none", TRUE, job.id,
                                    job.TargetSheets, NoInput))
    /\ startCount' = [startCount EXCEPT ![job.id] = @ + 1]
    /\ startLog' = startLog \cup {[id |-> job.id, at |-> now, RunAt |-> job.RunAt]}
    /\ UNCHANGED <<now, timerOn, idlingOn, winOpen, nextJobId, replaced, cancelled,
                   alerts>>
    /\ UNCHANGED <<printVars, confVars>>

\* PrintScheduler._process_schedule
_process_schedule ==
    IF job = NoJob \/ job.IsRunning THEN UNCHANGED vars
    ELSE IF ~Due(job, now) THEN _handle_reminders
         ELSE StartScheduledRun

\* Events reach a handler when the UI thread is idle or pumps messages in a
\* dialog or progress bar; the host raises Idling only when idle; buttons of
\* the window answer when idle or under a (modeless) progress bar, and not
\* while a (modal) dialog is open.
CanTick == timerOn /\ (Idle \/ (Pumping /\ Len(stack) < MaxDepth))
NoDialogOpen == \A k \in DOMAIN stack : stack[k].wait /= "dialog"
CanClick == winOpen /\ (Idle \/ (stack /= <<>> /\ Top.wait = "progress" /\ NoDialogOpen
                                 /\ Len(stack) < MaxDepth))

\* PrintScheduler.on_idling
on_idling == idlingOn /\ Idle /\ _process_schedule

\* PrintScheduler.on_timer_tick
on_timer_tick == CanTick /\ _process_schedule

\* The clock: the instants at which the program is observed, every full
\* minute and five seconds before the last one.
TimePoints == {t \in 0 .. MaxTime : t % 60 = 0 \/ t = MaxTime - 5}

AdvanceClock ==
    /\ Idle \/ Pumping
    /\ \E t \in TimePoints : t > now /\ now' = t
    /\ UNCHANGED <<stack, winOpen, alerts>>
    /\ UNCHANGED <<schedVars, printVars, confVars>>

\* ------------------------------------------------------ checks and parsing
\* _validate_export_options
_validate_export_options(u) == u.pdf \/ u.dwg

\* _validate_excel_path: [ok, alert]
_validate_excel_path(require_nonempty) ==
    IF ~ui.path_set
    THEN IF require_nonempty THEN [ok |-> FALSE, alert |-> "pick_csv_before_scheduling"]
         ELSE [ok |-> TRUE, alert |-> "none"]
    ELSE IF ~ledger.exists THEN [ok |-> FALSE, alert |-> "csv_not_found"]
         ELSE [ok |-> TRUE, alert |-> "none"]

\* A part of the time text after split(':'): a number, or text int() rejects.
Num(n) == [num |-> TRUE, val |-> n]
NotNum == [num |-> FALSE, val |-> 0]

DayStart(t) == (t \div 86400) * 86400

\* _parse_schedule_time: [run_at (0 for None), alert, raised]
_parse_schedule_time(input, t) ==
    IF input.date = "none"
    THEN [run_at |-> 0, alert |-> "select_schedule_date", raised |-> FALSE]
    ELSE IF Len(input.parts) < 2 \/ ~input.parts[1].num \/ ~input.parts[2].num
         THEN [run_at |-> 0, alert |-> "enter_time_hhmm", raised |-> FALSE]
         ELSE LET hour == input.parts[1].val
                  minute == input.parts[2].val
                  run_at == DayStart(t) + hour * 3600 + minute * 60
              IN IF hour \notin 0 .. 23 \/ minute \notin 0 .. 59
                 THEN [run_at |-> 0, alert |-> "none", raised |-> TRUE]
                 ELSE IF run_at <= t + 60
                      THEN [run_at |-> 0, alert |-> "must_be_in_future", raised |-> FALSE]
                      ELSE [run_at |-> run_at, alert |-> "none", raised |-> FALSE]

\* What the user may have typed into the schedule date and time boxes.
ScheduleInputs ==
    {[date |-> "today", parts |-> <<Num(0), Num(m)>>] : m \in 0 .. MaxMinute}
    \cup {[date |-> "none", parts |-> <<Num(0), Num(MaxMinute)>>],
          [date |-> "today", parts |-> <<Num(MaxMinute)>>],
          [date |-> "today", parts |-> <<Num(0), NotNum>>],
          [date |-> "today", parts |-> <<Num(24), Num(0)>>],
          [date |-> "today", parts |-> <<Num(0), Num(MaxMinute), NotNum>>]}

\* a set_job that keeps the job already pending
set_job_keep_pending(cur, new) == IF cur = NoJob THEN new ELSE cur

\* PrintScheduler.set_job
set_job(cur, new) == new

\* a cancel_job that leaves the job where it is
cancel_job_noop(cur) == cur

\* PrintScheduler.cancel_job
cancel_job(cur) == NoJob

\* a shutdown that leaves the timer running and on_idling attached
shutdown_noop(s) == s

\* PrintScheduler.shutdown: the timer is stopped, on_idling detached
shutdown(s) == [timerOn |-> FALSE, idlingOn |-> FALSE]

PendingId(j) == IF j /= NoJob THEN {j.id} ELSE {}

\* schedule_print after _get_target_sheets, lines 2742-2756
SchedulePrintBody(target_sheets, input, rest) ==
    LET v2 == _validate_excel_path(FALSE)
        v3 == _validate_excel_path(TRUE)
        p == _parse_schedule_time(input, now)
        kind == IF target_sheets = <<>> THEN "none"
                ELSE IF ~_validate_export_options(ui) THEN "export_options"
                ELSE IF ~v2.ok THEN v2.alert
                ELSE IF ui.writeback /\ ~v3.ok THEN v3.alert
                ELSE p.alert
        ok == /\ target_sheets /= <<>> /\ _validate_export_options(ui) /\ v2.ok
              /\ (ui.writeback => v3.ok) /\ p.run_at /= 0
        new == set_job(job, ScheduledJob(nextJobId, p.run_at, target_sheets))
    IN /\ stack' = rest
       /\ alerts' = Show({kind} \ {"none"}, FALSE)
       /\ IF ok
          THEN /\ job' = new
               /\ nextJobId' = nextJobId + 1
               /\ replaced' = replaced \cup PendingId(job)
               /\ status' = _update_schedule_status(new)
          ELSE UNCHANGED <<job, nextJobId, replaced, status>>
       /\ UNCHANGED <<now, timerOn, idlingOn, suppress_csv_popups, winOpen,
                      startCount, startLog, cancelled>>
       /\ UNCHANGED <<printVars, confVars>>

\* schedule_print: the button; with sheets selected _get_target_sheets asks
schedule_print ==
    /\ CanClick
    /\ nextJobId <= MaxJobs
    /\ \E input \in ScheduleInputs :
        IF sheet_list /= <<>> /\ ui.selected /= <<>>
        THEN /\ stack' = Append(stack, Frame("schedule_print", "ask", "dialog", FALSE,
                                             0, <<>>, input))
             /\ alerts' = Show({"selected_or_all"}, FALSE)
             /\ UNCHANGED <<now, winOpen>>
             /\ UNCHANGED <<schedVars, printVars, confVars>>
        ELSE SchedulePrintBody(sheet_list, input, stack)

\* schedule_print: the user's answer, then the rest of the handler
schedule_print_answer ==
    /\ stack /= <<>> /\ Top.kind = "schedule_print"
    /\ \E only \in BOOLEAN :
        SchedulePrintBody(IF only THEN ui.selected ELSE sheet_list, Top.input, Pop)

\* cancel_schedule
cancel_schedule ==
    /\ CanClick
    /\ job' = cancel_job(job)
    /\ cancelled' = cancelled \cup PendingId(job)
    /\ status' = _update_schedule_status(job')
    /\ UNCHANGED <<now, timerOn, idlingOn, suppress_csv_popups, winOpen, stack,
                   nextJobId, startCount, startLog, replaced, alerts>>
    /\ UNCHANGED <<printVars, confVars>>

\* window_closing, lines 3014-3016, once the close goes ahead
CloseWindow(rest) ==
    LET s == shutdown([timerOn |-> timerOn, idlingOn |-> idlingOn])
    IN /\ job' = cancel_job(job)
       /\ cancelled' = cancelled \cup PendingId(job)
       /\ timerOn' = s.timerOn
       /\ idlingOn' = s.idlingOn
       /\ winOpen' = FALSE
       /\ stack' = rest
       /\ UNCHANGED <<now, status, suppress_csv_popups, nextJobId, startCount,
                      startLog, replaced, alerts>>
       /\ UNCHANGED <<printVars, confVars>>

\* window_closing with a job pending: the question is put
AskCancelAndClose(below) ==
    /\ stack' = Append(below, Frame("window_closing", "ask", "dialog", FALSE, 0,
                                    <<>>, NoInput))
    /\ alerts' = Show({"pending_cancel_and_close"}, FALSE)
    /\ UNCHANGED <<now, winOpen>>
    /\ UNCHANGED <<schedVars, confVars>>

\* window_closing: the user closes the window
window_closing ==
    /\ CanClick
    /\ IF has_job
       THEN AskCancelAndClose(stack) /\ UNCHANGED printVars
       ELSE CloseWindow(stack)

\* window_closing: the user's answer; No sets args.Cancel
window_closing_answer ==
    /\ stack /= <<>> /\ Top.kind = "window_closing"
    /\ \E yes \in BOOLEAN :
        IF yes THEN CloseWindow(Pop)
        ELSE /\ stack' = Pop
             /\ UNCHANGED <<now, winOpen, alerts>>
             /\ UNCHANGED <<schedVars, printVars, confVars>>

\* ------------------------------------------------------------ the print run
SetTop(f) == [stack EXCEPT ![Len(stack)] = f]
AtRun(pc) == stack /= <<>> /\ Top.kind = "run" /\ Top.pc = pc

\* _load_excel_rows: [rows, alerts]
_load_excel_rows ==
    IF ~ui.path_set THEN [rows |-> EmptyRows, alerts |-> {}]
    ELSE IF ~ledger.exists THEN [rows |-> EmptyRows, alerts |-> {"excel_not_found"}]
    ELSE IF ~env.readable THEN [rows |-> EmptyRows, alerts |-> {"excel_read_failed"}]
    ELSE [rows |-> IndexRows(_read_print_rows_csv(ledger.rows), EmptyRows),
          alerts |-> {}]

\* a report that says it wrote the ledger and left the file as it was
_write_excel_report_unwritten(target_sheets, require_writeback_opt, allow_create, recompute_names, show_alert, dry_run_mode, picked) ==
    [ok |-> target_sheets /= <<>>, alerts |-> {}, ui |-> ui, names |-> names,
     excel_rows |-> excel_rows, ledger |-> ledger]

\* _write_excel_report: [ok, alerts, ui, names, excel_rows, ledger].
\* picked: the save dialog of allow_create returned a path.
_write_excel_report(target_sheets, require_writeback_opt, allow_create, recompute_names, show_alert, dry_run_mode, picked) ==
    LET same == [ok |-> FALSE, alerts |-> {}, ui |-> ui, names |-> names,
                 excel_rows |-> excel_rows, ledger |-> ledger]
        has_path == ui.path_set \/ (allow_create /\ picked)
        u1 == [ui EXCEPT !.path_set = TRUE]
        loaded == IF ledger.exists
                  THEN IF ~env.readable
                       THEN [rows |-> EmptyRows, alerts |-> {"excel_read_failed"}]
                       ELSE [rows |-> IndexRows(_read_print_rows_csv(ledger.rows),
                                                EmptyRows),
                             alerts |-> {}]
                  ELSE [rows |-> EmptyRows, alerts |-> {}]
        u2 == IF recompute_names THEN OptionsChangedUi(u1, env) ELSE u1
        n2 == IF recompute_names
              THEN OptionsChangedNames(u2, scheduled_sheets, EmptyRows, names)
              ELSE names
        maps == BuildMaps(target_sheets, n2,
                          [include_ext |-> u2.include_ext, pdf |-> u2.pdf, dwg |-> u2.dwg],
                          [name_map |-> <<>>, number_map |-> <<>>])
        sheets == _collect_revit_sheets(target_sheets, {})
        can_write == (ledger.exists => env.readable) /\ env.writable
        written == [exists |-> TRUE,
                    rows |-> _generate_or_update_csv(
                                 IF ledger.exists THEN ledger.rows ELSE <<>>,
                                 sheets, maps.name_map, maps.number_map)]
        after == [same EXCEPT !.ui = u2, !.names = n2, !.excel_rows = loaded.rows]
    IN IF target_sheets = <<>> THEN same
       ELSE IF require_writeback_opt /\ ~ui.writeback THEN same
       ELSE IF ~has_path
            THEN [same EXCEPT !.alerts = IF show_alert THEN {"pick_csv_first"} ELSE {}]
       ELSE IF ~ledger.exists /\ ~allow_create THEN same
       ELSE IF can_write
            THEN [after EXCEPT !.ok = TRUE, !.ledger = written,
                     !.alerts = loaded.alerts \cup
                                (IF show_alert
                                 THEN {IF dry_run_mode THEN "csv_updated_dry_run"
                                       ELSE "csv_updated"}
                                 ELSE {})]
            ELSE [after EXCEPT !.alerts = loaded.alerts \cup
                                (IF show_alert THEN {"csv_update_failed"} ELSE {})]

\* a pre-sync that reports success when SynchronizeWithCentral raised
sync_failure_ignored(doc, sync_ok) ==
    IF doc.IsLinked \/ ~doc.IsWorkshared \/ doc.IsDetached THEN "skipped" ELSE "ok"

\* _sync_before_scheduled_print: "skipped", "ok" or "failed"
_sync_before_scheduled_print(doc, sync_ok) ==
    IF doc.IsLinked THEN "skipped"
    ELSE IF ~doc.IsWorkshared THEN "skipped"
    ELSE IF doc.IsDetached THEN "skipped"
    ELSE IF sync_ok THEN "ok" ELSE "failed"

\* print_sheets: the button; with sheets selected _get_target_sheets asks
print_sheets ==
    /\ CanClick
    /\ sheet_list /= <<>>
    /\ IF ui.selected /= <<>>
       THEN /\ stack' = Append(stack, Frame("run", "targets", "dialog", FALSE, 0,
                                            <<>>, NoInput))
            /\ alerts' = Show({"selected_or_all"}, FALSE)
       ELSE /\ stack' = Append(stack, Frame("run", "validate", "none", FALSE, 0,
                                            sheet_list, NoInput))
            /\ UNCHANGED alerts
    /\ UNCHANGED <<now, winOpen>>
    /\ UNCHANGED <<schedVars, printVars, confVars>>

\* _get_target_sheets: the user's answer
RunTargets ==
    /\ AtRun("targets")
    /\ \E only \in BOOLEAN :
        stack' = SetTop([Top EXCEPT !.pc = "validate", !.wait = "none",
                            !.targets = IF only THEN ui.selected ELSE sheet_list])
    /\ UNCHANGED <<now, winOpen, alerts>>
    /\ UNCHANGED <<schedVars, printVars, confVars>>

\* _run_print, lines 2632-2635
RunValidate ==
    /\ AtRun("validate")
    /\ LET v == _validate_excel_path(FALSE)
           kind == IF ~_validate_export_options(ui) THEN "export_options"
                   ELSE v.alert
       IN /\ alerts' = Show({kind} \ {"none"}, Top.sched)
          /\ stack' = SetTop([Top EXCEPT
                                 !.wait = IF kind = "none" THEN "none" ELSE "dialog",
                                 !.pc = IF kind = "none" THEN "load" ELSE "finish"])
    /\ UNCHANGED <<now, winOpen>>
    /\ UNCHANGED <<schedVars, printVars, confVars>>

\* _run_print, line 2636
RunLoad ==
    /\ AtRun("load")
    /\ LET l == _load_excel_rows
       IN /\ excel_rows' = l.rows
          /\ alerts' = Show(l.alerts, Top.sched)
          /\ stack' = SetTop([Top EXCEPT !.pc = "check",
                                 !.wait = IF l.alerts = {} THEN "none" ELSE "dialog"])
    /\ UNCHANGED <<now, winOpen, scheduled_execution, names, ledger, files, overwritten>>
    /\ UNCHANGED <<schedVars, confVars>>

\* _run_print, line 2648: more sheets than are printed without asking
ConfirmAbove == 5

\* _run_print, lines 2637-2658
RunCheck ==
    /\ AtRun("check")
    /\ LET u == OptionsChangedUi(ui, env)
           printable_count == Len(SelectSeq(Top.targets, CanBePrinted))
           no_settings == ~u.combine /\ env.variable_paper /\ ~env.all_have_settings
           ask == ~u.combine /\ ~no_settings /\ ~Top.sched /\ printable_count > ConfirmAbove
       IN /\ ui' = u
          /\ names' = OptionsChangedNames(u, scheduled_sheets, excel_rows, names)
          /\ alerts' = Show((IF no_settings THEN {"no_print_setting"} ELSE {})
                            \cup (IF ask THEN {"confirm_individual"} ELSE {}), Top.sched)
          /\ stack' = SetTop([Top EXCEPT
                !.pc = IF no_settings THEN "finish" ELSE IF ask THEN "confirm" ELSE "write",
                !.wait = IF ask \/ no_settings THEN "dialog" ELSE "none"])
    /\ UNCHANGED <<now, winOpen, hostVars, scheduled_sheets, scheduled_execution,
                   excel_rows, ledger, files, overwritten>>
    /\ UNCHANGED schedVars

\* _run_print, lines 2654-2658: the user's answer
RunConfirm ==
    /\ AtRun("confirm")
    /\ \E yes \in BOOLEAN :
        stack' = SetTop([Top EXCEPT !.pc = IF yes THEN "write" ELSE "finish",
                            !.wait = "none"])
    /\ UNCHANGED <<now, winOpen, alerts>>
    /\ UNCHANGED <<schedVars, printVars, confVars>>

\* a run that goes on to print whatever the write-back came to
MayPrintAlways(writeback_enabled, wrote) == TRUE

\* _run_print, lines 2660-2674: "if not wrote: return"
MayPrintAfterWrite(writeback_enabled, wrote) == ~writeback_enabled \/ wrote

\* _run_print, lines 2660-2674
RunWrite ==
    /\ AtRun("write")
    /\ LET show_csv_alerts == ~Top.sched /\ ~suppress_csv_popups
           w == _write_excel_report(Top.targets, TRUE, FALSE, TRUE, show_csv_alerts,
                                    FALSE, FALSE)
           go == MayPrintAfterWrite(ui.writeback, w.ok)
       IN IF ui.writeback
          THEN /\ ui' = w.ui
               /\ names' = w.names
               /\ excel_rows' = w.excel_rows
               /\ ledger' = w.ledger
               /\ alerts' = Show(w.alerts, Top.sched)
               /\ stack' = SetTop([Top EXCEPT
                     !.wrote = IF w.ok THEN "ok" ELSE "failed",
                     !.pc = IF ~go THEN "finish" ELSE IF Top.sched THEN "sync" ELSE "close",
                     !.wait = IF w.alerts /= {} THEN "dialog" ELSE "none"])
          ELSE /\ stack' = SetTop([Top EXCEPT !.wrote = "off", !.wait = "none",
                                      !.pc = IF Top.sched THEN "sync" ELSE "close"])
               /\ UNCHANGED <<ui, names, excel_rows, ledger, alerts>>
    /\ UNCHANGED <<now, winOpen, hostVars, scheduled_sheets, scheduled_execution, files,
                   overwritten>>
    /\ UNCHANGED schedVars

\* _run_print, lines 2676-2680
RunSync ==
    /\ AtRun("sync")
    /\ LET r == _sync_before_scheduled_print(env.doc, env.sync_ok)
       IN /\ status' = IF r = "failed"
                       THEN Text("Scheduled print cancelled: pre-sync failed.")
                       ELSE Text("Syncing before scheduled print...")
          /\ stack' = SetTop([Top EXCEPT !.sync = r, !.wait = "none",
                                 !.pc = IF r = "failed" THEN "finish" ELSE "close"])
    /\ UNCHANGED <<now, winOpen, alerts, job, timerOn, idlingOn, suppress_csv_popups,
                   nextJobId, startCount, startLog, replaced, cancelled>>
    /\ UNCHANGED <<printVars, confVars>>

\* _run_print, lines 2682-2686: Close() raises Closing, handled by window_closing
RunClose ==
    /\ AtRun("close")
    /\ scheduled_execution' = Top.sched
    /\ LET f == [Top EXCEPT !.pc = "print", !.wait = "none", !.inTry = TRUE,
                            !.prevSchedExec = scheduled_execution]
       IN IF ~Top.sched /\ winOpen
          THEN IF has_job
               THEN AskCancelAndClose(SetTop(f))
               ELSE CloseWindow(SetTop(f))
          ELSE /\ stack' = SetTop(f)
               /\ UNCHANGED <<now, winOpen, alerts>>
               /\ UNCHANGED <<schedVars, confVars>>
    /\ UNCHANGED <<names, excel_rows, ledger, files, overwritten>>

\* ------------------------------------------------------------- the exports
\* PrintUtils.export_sheet_pdf: the host adds ".pdf" to opt.FileName
export_sheet_pdf(filename) == splitext(filename)[1] \o <<".pdf">>

\* PrintUtils.export_sheet_dwg
export_sheet_dwg(filename) == splitext(filename)[1] \o <<".dwg">>

\* PrintManager.SubmitPrint writes PrintToFileName
SubmitPrint(print_filename) == print_filename

\* _verify_print_filename: op.exists(sheet_print_filepath)
_verify_print_filename(dir_path, print_filename) == <<dir_path, print_filename>> \notin files

\* _get_output_dir: the folder named after the second the run prints in
_get_output_dir(t) == t

OrderedSheetSet == <<"O", ".pdf">>

\* the files one pass of the export loops writes for a sheet
SheetOutputs(print_filename) ==
    LET pdf_out == IF env.modern THEN export_sheet_pdf(print_filename)
                   ELSE SubmitPrint(print_filename)
        dwg_out == export_sheet_dwg(print_filename)
    IN IF env.doc.IsLinked THEN {pdf_out}
       ELSE IF ui.pdf /\ ui.dwg THEN {pdf_out, dwg_out}
       ELSE IF ui.pdf THEN {pdf_out}
       ELSE {dwg_out}

\* _run_print, lines 2687-2693, to the start of an export loop
RunPrintBegin ==
    /\ AtRun("print")
    /\ LET dir_path == _get_output_dir(now)
           out == <<dir_path, OrderedSheetSet>>
           no_pdf == (ui.combine \/ env.doc.IsLinked) /\ ~ui.pdf
           loop == ~ui.combine /\ ~no_pdf /\ (env.doc.IsLinked => env.modern)
       IN /\ alerts' = Show(IF no_pdf THEN {"export_pdf_disabled"} ELSE {}, Top.sched)
          /\ files' = IF ui.combine /\ ui.pdf THEN files \cup {out} ELSE files
          /\ overwritten' = IF ui.combine /\ ui.pdf THEN overwritten \cup ({out} \cap files)
                            ELSE overwritten
          /\ stack' = SetTop([Top EXCEPT
                !.dir = dir_path,
                !.pc = IF loop THEN "sheet" ELSE "finish",
                !.i = 1,
                !.wait = IF loop THEN "progress" ELSE IF no_pdf THEN "dialog" ELSE "none",
                !.exports = IF ui.combine /\ ui.pdf
                            THEN {[sheet |-> 0, name |-> OrderedSheetSet,
                                   written |-> {OrderedSheetSet}]}
                            ELSE {}])
    /\ UNCHANGED <<now, winOpen, scheduled_execution, names, excel_rows, ledger>>
    /\ UNCHANGED <<schedVars, confVars>>

\* one pass of the loop of _print_sheets_in_order / _print_linked_sheets_in_order
RunPrintSheet ==
    /\ AtRun("sheet")
    /\ IF Top.cancelled \/ Top.i > Len(Top.targets)
       THEN /\ stack' = SetTop([Top EXCEPT !.pc = "finish", !.wait = "none"])
            /\ UNCHANGED <<files, overwritten>>
       ELSE LET sheet == Top.targets[Top.i]
                print_filename == names[sheet]
                export == /\ CanBePrinted(sheet)
                          /\ print_filename /= <<>>
                          /\ _verify_print_filename(Top.dir, print_filename)
                written == IF export THEN SheetOutputs(print_filename) ELSE {}
                paths == {<<Top.dir, w>> : w \in written}
            IN /\ files' = files \cup paths
               /\ overwritten' = overwritten \cup (paths \cap files)
               /\ stack' = SetTop([Top EXCEPT
                     !.i = @ + 1,
                     !.exports = IF export
                                 THEN @ \cup {[sheet |-> sheet, name |-> print_filename,
                                               written |-> written]}
                                 ELSE @])
    /\ UNCHANGED <<now, winOpen, alerts, scheduled_execution, names, excel_rows, ledger>>
    /\ UNCHANGED <<schedVars, confVars>>

\* forms.ProgressBar(cancellable=(not self._scheduled_execution)): Cancel
ProgressCancel ==
    /\ AtRun("sheet")
    /\ Top.wait = "progress"
    /\ ~Top.sched
    /\ ~Top.cancelled
    /\ stack' = SetTop([Top EXCEPT !.cancelled = TRUE])
    /\ UNCHANGED <<now, winOpen, alerts>>
    /\ UNCHANGED <<schedVars, printVars, confVars>>

\* the finally blocks of _run_print (2694-2695) and _process_schedule
\* (3147-3152), and the return to the event loop
RunFinish ==
    /\ AtRun("finish")
    /\ scheduled_execution' = IF Top.inTry THEN Top.prevSchedExec ELSE scheduled_execution
    /\ IF Top.sched
       THEN /\ suppress_csv_popups' = Top.prevSuppress
            /\ status' = _update_schedule_status(job)
       ELSE UNCHANGED <<suppress_csv_popups, status>>
    /\ stack' = Pop
    /\ UNCHANGED <<now, winOpen, alerts, job, timerOn, idlingOn, nextJobId, startCount,
                   startLog, replaced, cancelled>>
    /\ UNCHANGED <<names, excel_rows, ledger, files, overwritten>>
    /\ UNCHANGED confVars

\* the ledger file is deleted or moved away behind the program's back
DeleteLedgerFile ==
    /\ Idle \/ Pumping
    /\ ledger.exists
    /\ ledger' = [exists |-> FALSE, rows |-> <<>>]
    /\ UNCHANGED <<now, winOpen, stack, alerts, scheduled_execution, names, excel_rows,
                   files, overwritten>>
    /\ UNCHANGED <<schedVars, confVars>>

\* ----------------------------------------------------- the ledger dry run
AtDryRun(pc) == stack /= <<>> /\ Top.kind = "dry_run" /\ Top.pc = pc

\* write_excel_dry_run: the button; with sheets selected _get_target_sheets
\* asks, and without a ledger path _write_excel_report opens the save dialog
write_excel_dry_run ==
    /\ CanClick
    /\ sheet_list /= <<>>
    /\ IF ui.selected /= <<>>
       THEN /\ stack' = Append(stack, Frame("dry_run", "targets", "dialog", FALSE, 0,
                                            <<>>, NoInput))
            /\ alerts' = Show({"selected_or_all"}, FALSE)
       ELSE /\ stack' = Append(stack, Frame("dry_run", "write",
                                            IF ui.path_set THEN "none" ELSE "dialog",
                                            FALSE, 0, sheet_list, NoInput))
            /\ UNCHANGED alerts
    /\ UNCHANGED <<now, winOpen>>
    /\ UNCHANGED <<schedVars, printVars, confVars>>

\* _get_target_sheets: the user's answer
DryRunTargets ==
    /\ AtDryRun("targets")
    /\ \E only \in BOOLEAN :
        stack' = SetTop([Top EXCEPT !.pc = "write",
                            !.wait = IF ui.path_set THEN "none" ELSE "dialog",
                            !.targets = IF only THEN ui.selected ELSE sheet_list])
    /\ UNCHANGED <<now, winOpen, alerts>>
    /\ UNCHANGED <<schedVars, printVars, confVars>>

\* write_excel_dry_run, lines 2762-2767: _write_excel_report(dry_run_mode=True)
DryRunWrite ==
    /\ AtDryRun("write")
    /\ \E picked \in (IF ui.path_set THEN {FALSE} ELSE BOOLEAN) :
        LET w == _write_excel_report(Top.targets, FALSE, TRUE, TRUE, TRUE, TRUE, picked)
        IN /\ ui' = w.ui
           /\ names' = w.names
           /\ excel_rows' = w.excel_rows
           /\ ledger' = w.ledger
           /\ alerts' = Show(w.alerts, FALSE)
           /\ stack' = SetTop([Top EXCEPT
                 !.wrote = IF w.ok THEN "ok" ELSE "failed",
                 !.pc = IF w.ok THEN "reload" ELSE "finish",
                 !.wait = IF w.alerts /= {} THEN "dialog" ELSE "none"])
    /\ UNCHANGED <<now, winOpen, hostVars, scheduled_sheets, scheduled_execution, files,
                   overwritten>>
    /\ UNCHANGED schedVars

\* write_excel_dry_run, line 2768: _load_excel_rows
DryRunReload ==
    /\ AtDryRun("reload")
    /\ LET l == _load_excel_rows
       IN /\ excel_rows' = l.rows
          /\ alerts' = Show(l.alerts, FALSE)
          /\ stack' = SetTop([Top EXCEPT !.pc = "refresh",
                                 !.wait = IF l.alerts = {} THEN "none" ELSE "dialog"])
    /\ UNCHANGED <<now, winOpen, scheduled_execution, names, ledger, files, overwritten>>
    /\ UNCHANGED <<schedVars, confVars>>

\* write_excel_dry_run, line 2769: options_changed, and the return
DryRunRefresh ==
    /\ AtDryRun("refresh") \/ AtDryRun("finish")
    /\ IF Top.pc = "refresh"
       THEN LET u == OptionsChangedUi(ui, env)
            IN /\ ui' = u
               /\ names' = OptionsChangedNames(u, scheduled_sheets, excel_rows, names)
       ELSE UNCHANGED <<ui, names>>
    /\ stack' = Pop
    /\ UNCHANGED <<now, winOpen, alerts, hostVars, scheduled_sheets, scheduled_execution,
                   excel_rows, ledger, files, overwritten>>
    /\ UNCHANGED schedVars

\* ------------------------------------------------------ the cleanup scripts
\* Clean Design Options, Delete Detail Lines Groups, Delete Ungrouped Elements:
\* each script runs top to bottom on the UI thread; UI.TaskDialog.Show is modal.
CleanDesignOptions == "Clean Design Options"
DeleteDetailLinesGroups == "Delete Detail Lines Groups"
DeleteUngroupedElements == "Delete Ungrouped Elements"
CleanupScripts == {CleanDesignOptions, DeleteDetailLinesGroups, DeleteUngroupedElements}

\* An element of the document: Id, class, Category, GroupId (0 for
\* ElementId.InvalidElementId) and the design option that contains it (0: none).
Element(id, class, category, group_id, option) ==
    [Id |-> id, class |-> class, Category |-> category, GroupId |-> group_id,
     option |-> option]

\* The elements a document may hold.
ElementCatalogue ==
    {Element(1, "DesignOptionSet", "none", 0, 0),
     Element(2, "DesignOption", "none", 0, 0),
     Element(3, "Wall", "OST_Walls", 0, 2),
     Element(4, "DetailCurve", "OST_Lines", 0, 0),
     Element(5, "DetailCurve", "OST_Lines", 6, 0),
     Element(6, "Group", "OST_IOSDetailGroups", 0, 0),
     Element(7, "GroupType", "OST_IOSModelGroups", 0, 0),
     Element(8, "TextNote", "OST_TextNotes", 0, 0),
     Element(9, "FamilyInstance", "OST_DetailComponents", 0, 0)}

NoScript == [name |-> "none", pc |-> "idle", ids_to_delete |-> {}, res |-> "none"]

\* FilteredElementCollector.OfClass: the class or one derived from it
OfClass(elements, class) ==
    {e \in elements :
        \/ e.class = class
        \/ class = "CurveElement" /\ e.class \in {"DetailCurve", "ModelCurve"}}

WhereElementIsNotElementType(elements) == {e \in elements : e.class /= "GroupType"}
WhereElementIsElementType(elements) == {e \in elements : e.class = "GroupType"}

ToElementIds(elements) == {e.Id : e \in elements}

\* Delete Detail Lines Groups, lines 13-18
is_detail_group(cat) == cat = "OST_IOSDetailGroups"
is_model_group(cat) == cat = "OST_IOSModelGroups"

\* Delete Ungrouped Elements, lines 13-14
is_ungrouped(elem) == elem.GroupId = 0

\* Delete Ungrouped Elements, lines 17-27 (CategoryType.Annotation categories)
is_symbol_like(elem) ==
    /\ elem.Category /= "none"
    /\ elem.Category \in {"OST_GenericAnnotation", "OST_DetailComponents",
                          "OST_RepeatingDetail"}

\* Delete Ungrouped Elements, lines 41-107: the classes collected
UngroupedClasses ==
    {"CurveElement", "FilledRegion", "IndependentTag", "Area", "Room", "MaskingRegion",
     "TextNote"}

\* the ids each script collects before it asks
CollectIds(name, elements) ==
    LET instances == WhereElementIsNotElementType(elements)
    IN CASE name = CleanDesignOptions ->
              ToElementIds(OfClass(instances, "DesignOption"))
              \cup ToElementIds(OfClass(instances, "DesignOptionSet"))
         [] name = DeleteDetailLinesGroups ->
              ToElementIds(OfClass(instances, "DetailCurve"))
              \cup {g.Id : g \in {x \in OfClass(instances, "Group") :
                        is_detail_group(x.Category) \/ is_model_group(x.Category)}}
              \cup {gt.Id : gt \in {x \in OfClass(WhereElementIsElementType(elements),
                                                  "GroupType") :
                        is_detail_group(x.Category) \/ is_model_group(x.Category)}}
         [] OTHER ->
              {e.Id : e \in {x \in UNION {OfClass(instances, c) : c \in UngroupedClasses} :
                                is_ungrouped(x)}}
              \cup {e.Id : e \in {x \in OfClass(instances, "FamilyInstance") :
                                is_symbol_like(x) /\ is_ungrouped(x)}}

\* Document.Delete: the elements, with what the host deletes along with
\* them (the content of a design option, the members of a group)
Delete(elements, ids) ==
    {e \in elements : e.Id \notin ids /\ e.option \notin ids /\ e.GroupId \notin ids}

\* a script that goes ahead on every answer but No
GoesAheadUnlessNo(res) == res /= "No"

\* "if res != UI.TaskDialogResult.Yes: script.exit()"
GoesAhead(res) == res = "Yes"

\* the push button: the script runs up to its first dialog
RunCleanupScript ==
    /\ Idle
    /\ cleanup.pc = "idle"
    /\ \E name \in CleanupScripts :
        LET ids == IF revit_doc.open THEN CollectIds(name, revit_doc.elements) ELSE {}
        IN cleanup' = [name |-> name, ids_to_delete |-> ids, res |-> "none",
                       pc |-> IF ~revit_doc.open THEN "no_document"
                              ELSE IF ids = {} THEN "none_found" ELSE "confirm"]
    /\ UNCHANGED <<revit_doc, transactions, env, ui, scheduled_sheets>>
    /\ UNCHANGED <<now, winOpen, stack, alerts>>
    /\ UNCHANGED <<schedVars, printVars>>

\* "No active document." or "No ... found." is dismissed: script.exit()
CleanupDismiss ==
    /\ cleanup.pc \in {"no_document", "none_found"}
    /\ cleanup' = NoScript
    /\ UNCHANGED <<revit_doc, transactions, env, ui, scheduled_sheets>>
    /\ UNCHANGED <<now, winOpen, stack, alerts>>
    /\ UNCHANGED <<schedVars, printVars>>

\* the answer to "Continue?", then the transaction or script.exit()
CleanupAnswer ==
    /\ cleanup.pc = "confirm"
    /\ \E res \in {"Yes", "No", "Cancel"} :
        /\ cleanup' = [cleanup EXCEPT !.res = res, !.pc = "done"]
        /\ IF GoesAhead(res)
           THEN /\ transactions' = Append(transactions, cleanup.name)
                /\ revit_doc' = [revit_doc EXCEPT
                                    !.elements = Delete(@, cleanup.ids_to_delete)]
           ELSE UNCHANGED <<revit_doc, transactions>>
    /\ UNCHANGED <<env, ui, scheduled_sheets>>
    /\ UNCHANGED <<now, winOpen, stack, alerts>>
    /\ UNCHANGED <<schedVars, printVars>>

\* the script has ended; the button can be pushed again
CleanupEnd ==
    /\ cleanup.pc = "done"
    /\ cleanup' = NoScript
    /\ UNCHANGED <<revit_doc, transactions, env, ui, scheduled_sheets>>
    /\ UNCHANGED <<now, winOpen, stack, alerts>>
    /\ UNCHANGED <<schedVars, printVars>>

\* ------------------------------------------------------------ initial state
BaseUi ==
    [pdf |-> TRUE, dwg |-> FALSE, combine |-> FALSE, writeback |-> TRUE,
     include_ext |-> FALSE, template |-> BuiltinTemplate, show_placeholders |-> TRUE,
     include_placeholders |-> TRUE, reverse |-> FALSE, index_start |-> 0,
     path_set |-> TRUE, selected |-> <<>>]

BaseEnv ==
    [doc |-> [IsLinked |-> FALSE, IsWorkshared |-> TRUE, IsDetached |-> FALSE],
     sync_ok |-> TRUE, readable |-> TRUE, writable |-> TRUE, variable_paper |-> FALSE,
     all_have_settings |-> TRUE, modern |-> TRUE]

NoNames == [s \in SheetIds |-> <<>>]

\* a row an earlier run left in the ledger
StaleRow == ExcelPrintRow(<<"old">>, <<"A">>, <<"1">>)
NoLedger == [exists |-> FALSE, rows |-> <<>>]
EmptyLedger == [exists |-> TRUE, rows |-> <<>>]
StaleLedger == [exists |-> TRUE, rows |-> <<StaleRow>>]

\* PrintSheetsWindow.__init__ and PrintScheduler.__init__ for a window set up
\* with controls u on host e, sheets listed, and the ledger file led
InitWindow(u, e, sheets, led) ==
    LET u1 == OptionsChangedUi(u, e)
        rows == IF u1.path_set /\ led.exists /\ e.readable
                THEN IndexRows(_read_print_rows_csv(led.rows), EmptyRows)
                ELSE EmptyRows
    IN /\ now = 0
       /\ job = NoJob
       /\ timerOn = TRUE
       /\ idlingOn = TRUE
       /\ status = Text("No schedule")
       /\ suppress_csv_popups = FALSE
       /\ scheduled_execution = FALSE
       /\ winOpen = TRUE
       /\ stack = <<>>
       /\ ui = u1
       /\ env = e
       /\ scheduled_sheets = sheets
       /\ names = OptionsChangedNames(u1, sheets, rows, NoNames)
       /\ excel_rows = rows
       /\ ledger = led
       /\ files = {}
       /\ nextJobId = 1
       /\ startCount = [i \in 1 .. MaxJobs |-> 0]
       /\ startLog = {}
       /\ replaced = {}
       /\ cancelled = {}
       /\ alerts = {}
       /\ overwritten = {}

\* the window set up on a host where no cleanup script runs
InitWith(u, e, sheets, led) ==
    /\ InitWindow(u, e, sheets, led)
    /\ revit_doc = [open |-> TRUE, elements |-> {}]
    /\ cleanup = NoScript
    /\ transactions = <<>>

SixSheets == <<1, 2, 3, 5, 6, 7>>

\* ---- the scheduler and the window: every interleaving of the handlers
Init ==
    \E sel \in {<<>>, <<2>>} :
        InitWith([BaseUi EXCEPT !.selected = sel], BaseEnv, <<2>>, EmptyLedger)

Next ==
    \/ on_idling
    \/ on_timer_tick
    \/ AdvanceClock
    \/ schedule_print
    \/ schedule_print_answer
    \/ cancel_schedule
    \/ window_closing
    \/ window_closing_answer
    \/ print_sheets
    \/ RunTargets
    \/ RunValidate
    \/ RunLoad
    \/ RunCheck
    \/ RunWrite
    \/ RunSync
    \/ RunClose
    \/ RunPrintBegin
    \/ RunPrintSheet
    \/ RunFinish

Spec == Init /\ [][Next]_vars

\* ---- manual and scheduled runs over ledger files and write-back options
InitRun ==
    \/ \E r \in BOOLEAN, w \in BOOLEAN :
         InitWith(BaseUi, [BaseEnv EXCEPT !.readable = r, !.writable = w], <<2>>,
                  EmptyLedger)
    \/ \E wb \in BOOLEAN, p \in BOOLEAN, led \in {NoLedger, EmptyLedger} :
         /\ led = NoLedger => wb /\ p
         /\ InitWith([BaseUi EXCEPT !.writeback = wb, !.path_set = p], BaseEnv, <<2>>, led)

NextRun ==
    \/ on_timer_tick
    \/ AdvanceClock
    \/ schedule_print
    \/ window_closing_answer
    \/ print_sheets
    \/ RunValidate
    \/ RunLoad
    \/ RunCheck
    \/ RunWrite
    \/ RunSync
    \/ RunClose
    \/ RunPrintBegin
    \/ RunPrintSheet
    \/ RunFinish
    \/ DeleteLedgerFile

SpecRun == InitRun /\ [][NextRun]_vars

\* ---- scheduled runs over host documents: the synchronize-with-central step
Docs ==
    {[IsLinked |-> l, IsWorkshared |-> w, IsDetached |-> d] :
        l \in BOOLEAN, w \in BOOLEAN, d \in BOOLEAN}

InitSync ==
    \E d \in Docs, ok \in BOOLEAN, dwg \in BOOLEAN :
        InitWith([BaseUi EXCEPT !.dwg = dwg], [BaseEnv EXCEPT !.doc = d, !.sync_ok = ok],
                 <<2, 3>>, EmptyLedger)

NextSync ==
    \/ on_idling
    \/ on_timer_tick
    \/ AdvanceClock
    \/ schedule_print
    \/ cancel_schedule
    \/ RunValidate
    \/ RunLoad
    \/ RunCheck
    \/ RunWrite
    \/ RunSync
    \/ RunClose
    \/ RunPrintBegin
    \/ RunPrintSheet
    \/ RunFinish

SpecSync == InitSync /\ [][NextSync]_vars

\* ---- one manual run over sheet lists, naming formats and export modes
RECURSIVE SeqsOver(_, _)
SeqsOver(S, n) ==
    IF n = 0 THEN {<<>>}
    ELSE LET shorter == SeqsOver(S, n - 1)
         IN shorter \cup {Append(q, x) : q \in shorter, x \in S}

SheetLists == {q \in SeqsOver({1, 2, 3, 4, 6}, MaxSheets) : q /= <<>> /\ NoDups(q)}

InitPrint ==
    \/ \E sheets \in SheetLists, pdf \in BOOLEAN, dwg \in BOOLEAN,
          template \in NamingTemplates, ext \in BOOLEAN,
          led \in {EmptyLedger, StaleLedger}, modern \in BOOLEAN :
         InitWith([BaseUi EXCEPT !.pdf = pdf, !.dwg = dwg, !.template = template,
                                 !.include_ext = ext],
                  [BaseEnv EXCEPT !.modern = modern], sheets, led)
    \/ \E sheets \in SheetLists \cup {SixSheets}, combine \in BOOLEAN, wb \in BOOLEAN,
          linked \in BOOLEAN, show \in BOOLEAN, rev \in BOOLEAN :
         InitWith([BaseUi EXCEPT !.combine = combine, !.writeback = wb,
                                 !.show_placeholders = show, !.reverse = rev,
                                 !.selected = <<sheets[1]>>],
                  [BaseEnv EXCEPT !.doc.IsLinked = linked], sheets, EmptyLedger)

NextPrint ==
    \/ AdvanceClock
    \/ print_sheets
    \/ RunTargets
    \/ RunValidate
    \/ RunLoad
    \/ RunCheck
    \/ RunConfirm
    \/ RunWrite
    \/ RunClose
    \/ RunPrintBegin
    \/ RunPrintSheet
    \/ ProgressCancel
    \/ RunFinish

SpecPrint == InitPrint /\ [][NextPrint]_vars

\* ---- ledger dry runs beside the scheduler, over ledger files and paths
InitDry ==
    \E led \in {NoLedger, EmptyLedger, StaleLedger}, p \in BOOLEAN,
       sel \in {<<>>, <<2>>}, w \in BOOLEAN :
        /\ ~w => (led = EmptyLedger /\ p)
        /\ InitWith([BaseUi EXCEPT !.path_set = p, !.selected = sel],
                    [BaseEnv EXCEPT !.writable = w], <<2, 3>>, led)

NextDry ==
    \/ on_timer_tick
    \/ AdvanceClock
    \/ schedule_print
    \/ schedule_print_answer
    \/ write_excel_dry_run
    \/ DryRunTargets
    \/ DryRunWrite
    \/ DryRunReload
    \/ DryRunRefresh
    \/ RunValidate
    \/ RunLoad
    \/ RunCheck
    \/ RunWrite
    \/ RunSync
    \/ RunClose
    \/ RunPrintBegin
    \/ RunPrintSheet
    \/ RunFinish

SpecDry == InitDry /\ [][NextDry]_vars

\* ---- the cleanup scripts over the documents the host may have open
InitCleanup ==
    /\ InitWindow(BaseUi, BaseEnv, <<2>>, EmptyLedger)
    /\ \E open \in BOOLEAN, elements \in SUBSET ElementCatalogue :
        /\ ~open => elements = {}
        /\ revit_doc = [open |-> open, elements |-> elements]
    /\ cleanup = NoScript
    /\ transactions = <<>>

NextCleanup ==
    \/ RunCleanupScript
    \/ CleanupDismiss
    \/ CleanupAnswer
    \/ CleanupEnd

SpecCleanup == InitCleanup /\ [][NextCleanup]_vars

\* ------------------------------------------------------------------ claims
Started == {e.id : e \in startLog}
Scheduled == 1 .. (nextJobId - 1)
RunFrames == {stack[i] : i \in {k \in DOMAIN stack : stack[k].kind = "run"}}
TopIs(kind) == stack /= <<>> /\ Top.kind = kind
NeedsSync(doc) == ~doc.IsLinked /\ doc.IsWorkshared /\ ~doc.IsDetached

\* C1: a scheduled job is executed at most once: whatever idle events and
\* timer ticks follow the start of its run, also while the run is still in
\* progress, none starts the same job again.
C1_ExecutedAtMostOnce == \A id \in DOMAIN startCount : startCount[id] <= 1

\* a scheduled run is under way in its progress bar, the timer still ticking
C1_Witness ==
    /\ Len(stack) = 1 /\ Top.kind = "run" /\ Top.sched
    /\ Top.pc = "sheet" /\ Top.i > 1
    /\ startCount[Top.jobId] = 1
    /\ timerOn /\ idlingOn

\* C2: a scheduled job never starts early: every start of a run is at or
\* after the job's RunAt, and while the clock is before RunAt no step starts
\* a run or makes the pending job anything but the same pending job (only
\* its reminders grow).
C2_NeverStartsEarly ==
    /\ [](\A e \in startLog : e.at >= e.RunAt)
    /\ [][(has_job /\ now < job.RunAt) =>
            /\ startCount' = startCount
            /\ startLog' = startLog
            /\ job'.id = job.id =>
                 /\ job'.RunAt = job.RunAt
                 /\ job'.TargetSheets = job.TargetSheets
                 /\ ~job'.IsRunning
                 /\ job.RemindersShown \subseteq job'.RemindersShown]_vars

\* a poll before RunAt has shown a reminder and left the job pending
C2_Witness ==
    /\ has_job /\ now < job.RunAt /\ now > 0
    /\ job.RemindersShown /= {}
    /\ status.text = "Scheduled print starts in"

\* C3: the scheduler holds at most one pending job: the jobs scheduled and
\* neither started, replaced nor cancelled are exactly the job in the
\* scheduler's slot; a successful schedule_print puts its job there in place
\* of the pending one, and a replaced job is never started.
C3_OnePendingJob ==
    /\ [](Scheduled \ (Started \cup replaced \cup cancelled) = PendingId(job))
    /\ [](replaced \cap Started = {})
    /\ [][nextJobId' /= nextJobId =>
            /\ job'.id = nextJobId
            /\ PendingId(job) \subseteq replaced']_vars

\* the job that replaced another was started; the replaced one never was
C3_Witness == replaced /= {} /\ Started /= {} /\ now = MaxTime

\* C4: after cancel_schedule no job is pending and the status reads
\* "No schedule"; a cancelled job is never started, and while no job is
\* pending no scheduled run starts.
C4_CancelledNeverRuns ==
    /\ [](cancelled \cap Started = {})
    /\ [][(cancelled' /= cancelled /\ winOpen') =>
            (job' = NoJob /\ status' = Text("No schedule"))]_vars
    /\ [][~has_job => startCount' = startCount]_vars

\* a job was cancelled, the window stayed open and its time has passed
C4_Witness ==
    /\ cancelled /= {} /\ winOpen /\ timerOn
    /\ ~has_job /\ Started = {} /\ now = MaxTime
    /\ status = Text("No schedule")

HasRowFor(sheet, rows) ==
    \E i \in DOMAIN rows : rows[i].DrawingName = normalize_match_text(SheetName(sheet))

Printing(f) == f.pc \in {"close", "print", "sheet"} \/ f.exports /= {}

\* C5: with write-back enabled a run reaches its print and export calls only
\* after it has written the ledger (the file then holds a row for every
\* target sheet); a run whose write failed stops there and exports nothing.
C5_LedgerWrittenBeforePrint ==
    /\ [](\A f \in RunFrames :
            /\ (ui.writeback /\ (Printing(f) \/ f.pc = "sync")) => f.wrote = "ok"
            /\ f.wrote = "failed" => (f.pc = "finish" /\ f.exports = {}))
    /\ [][files' /= files => (ui.writeback => (TopIs("run") /\ Top.wrote = "ok"))]_vars
    /\ [][(TopIs("run") /\ Top.pc = "write" /\ Len(stack') = Len(stack)) =>
            /\ stack'[Len(stack)].wrote = "ok" =>
                 /\ ledger'.exists
                 /\ \A k \in DOMAIN Top.targets : HasRowFor(Top.targets[k], ledger'.rows)
            /\ stack'[Len(stack)].wrote = "failed" => (ledger' = ledger /\ files' = files)]_vars

\* a scheduled run with write-back enabled could not write and has stopped
C5_Witness ==
    /\ ui.writeback
    /\ TopIs("run") /\ Top.sched /\ Top.wrote = "failed" /\ Top.pc = "finish"
    /\ files = {}

CsvAlerts ==
    {"csv_not_found", "excel_not_found", "excel_read_failed", "pick_csv_first",
     "pick_csv_before_scheduling", "csv_updated", "csv_updated_dry_run",
     "csv_update_failed"}

\* C8: during a scheduled run no CSV-related pop-up is shown, whatever the
\* state of the ledger path or file.
C8_NoCsvPopupInScheduledRun == \A a \in alerts : a.sched => a.kind \notin CsvAlerts

\* C9: in a scheduled run the print and export calls come after the
\* synchronize-with-central step; a failed step stops the run with nothing
\* exported; the step is skipped exactly for linked, non-workshared and
\* detached documents, and otherwise succeeds only when the host does.
C9_SyncBeforeScheduledPrint ==
    /\ [](\A f \in RunFrames :
            /\ (f.sched /\ Printing(f)) => f.sync \in {"ok", "skipped"}
            /\ f.sync = "failed" => (f.pc = "finish" /\ f.exports = {})
            /\ f.sync = "skipped" => ~NeedsSync(env.doc)
            /\ f.sync = "ok" => (NeedsSync(env.doc) /\ env.sync_ok)
            /\ f.sync = "failed" => (NeedsSync(env.doc) /\ ~env.sync_ok))
    /\ [][(files' /= files /\ TopIs("run") /\ Top.sched) =>
            (NeedsSync(env.doc) => env.sync_ok)]_vars
    /\ [][(TopIs("run") /\ Top.pc = "sync" /\ Len(stack') = Len(stack)
            /\ stack'[Len(stack)].sync = "failed") =>
            status' = Text("Scheduled print cancelled: pre-sync failed.")]_vars

\* a scheduled run whose synchronize-with-central failed has stopped
C9_Witness ==
    /\ TopIs("run") /\ Top.sched /\ Top.sync = "failed" /\ Top.pc = "finish"
    /\ Top.wrote = "ok" /\ files = {}

\* the ledger's name for a file the run wrote
LedgerNameOf(written) ==
    LET base_name == normalize_match_text(splitext(written)[1])
    IN IF ui.include_ext THEN base_name \o splitext(written)[2] ELSE base_name

\* C6: after a run with write-back enabled the ledger holds, for every target
\* sheet the run exports, a row with the sheet's drawing name and number whose
\* printed file name is that of a file exported for the sheet.
C6_LedgerMatchesOutputs ==
    \A f \in RunFrames :
        f.wrote = "ok" =>
            \A e \in f.exports :
                e.sheet /= 0 =>
                    \E i \in DOMAIN ledger.rows, w \in e.written :
                        /\ ledger.rows[i].DrawingName = normalize_match_text(SheetName(e.sheet))
                        /\ ledger.rows[i].DrawingNumber = normalize_match_text(SheetNumber(e.sheet))
                        /\ ledger.rows[i].PrintFileName = LedgerNameOf(w)

\* C7: an export never writes onto a file that already exists.
C7_NeverOverwrites == overwritten = {}

\* A date and an HH:MM time, read without the code: a date is picked and the
\* text is two numbers, an hour of the day and a minute of the hour.
IsHourMinute(input) ==
    /\ input.date /= "none"
    /\ Len(input.parts) = 2
    /\ input.parts[1].num /\ input.parts[1].val \in 0 .. 23
    /\ input.parts[2].num /\ input.parts[2].val \in 0 .. 59

\* the moment a date and HH:MM time names
MomentOf(input, t) ==
    DayStart(t) + input.parts[1].val * 3600 + input.parts[2].val * 60

\* C11: schedule_print installs a job only for a moment later than the current
\* time plus one minute; with the date missing, the time malformed or the
\* moment not in the future it installs no job and leaves the pending job
\* as it is.
C11_InstallsOnlyFutureTime ==
    /\ [][(job' /= NoJob /\ job'.id /= job.id) => job'.RunAt > now + 60]_vars
    /\ [][(TopIs("schedule_print") /\ stack' = Pop
             /\ ~(IsHourMinute(Top.input) /\ MomentOf(Top.input, now) > now + 60))
            => job' = job]_vars

\* a manual run printing sheet by sheet that had to be confirmed: it is in
\* the export loop only by the user's Yes
Confirmed(f) ==
    /\ f.kind = "run" /\ f.pc = "sheet" /\ ~f.sched /\ ~ui.combine
    /\ Len(SelectSeq(f.targets, CanBePrinted)) > ConfirmAbove

\* C12: a manual print of more than 5 printable sheets one by one can not be
\* cancelled once confirmed: the loop is left only past the last target sheet,
\* and by then a file is exported under the name of every printable target
\* sheet that has one.
C12_ConfirmedRunNotCancelled ==
    /\ [](\A f \in RunFrames : Confirmed(f) => ~f.cancelled)
    /\ [][(AtRun("sheet") /\ Confirmed(Top) /\ Len(stack') = Len(stack)
             /\ stack'[Len(stack')].pc = "finish")
            => /\ Top.i > Len(Top.targets)
               /\ \A k \in DOMAIN Top.targets :
                    (CanBePrinted(Top.targets[k]) /\ names[Top.targets[k]] /= <<>>)
                        => \E e \in Top.exports : e.name = names[Top.targets[k]]]_vars

\* a step of the write_excel_dry_run handler: the click, or one of its steps
DryRunStep ==
    \/ Len(stack') = Len(stack) + 1 /\ stack'[Len(stack')].kind = "dry_run"
    \/ TopIs("dry_run") /\ (stack' = Pop \/ (Len(stack') = Len(stack) /\ stack' /= stack))

\* C13: a ledger dry run prints nothing and leaves the schedule alone: no step
\* of write_excel_dry_run writes an output file or changes the pending job,
\* the record of started, replaced and cancelled jobs, the timer or the
\* window; a successful dry run leaves a ledger file with a row for every
\* target sheet, and the sheets' file names are refreshed from those rows.
C13_DryRunPrintsNothing ==
    /\ [][DryRunStep =>
            /\ files' = files /\ overwritten' = overwritten
            /\ scheduled_execution' = scheduled_execution
            /\ job' = job /\ nextJobId' = nextJobId /\ status' = status
            /\ startCount' = startCount /\ startLog' = startLog
            /\ replaced' = replaced /\ cancelled' = cancelled
            /\ timerOn' = timerOn /\ idlingOn' = idlingOn /\ winOpen' = winOpen]_vars
    /\ [][(AtDryRun("write") /\ DryRunStep /\ stack'[Len(stack')].wrote = "ok") =>
            /\ ledger'.exists
            /\ \A k \in DOMAIN Top.targets :
                 \E i \in DOMAIN ledger'.rows :
                    ledger'.rows[i].DrawingName
                        = normalize_match_text(SheetName(Top.targets[k]))]_vars
    /\ [][(AtDryRun("refresh") /\ stack' = Pop) =>
            \A k \in DOMAIN Top.targets :
                 \E i \in DOMAIN ledger.rows :
                    /\ ledger.rows[i].DrawingName
                         = normalize_match_text(SheetName(Top.targets[k]))
                    /\ names'[Top.targets[k]]
                         = _ensure_pdf_extension(ledger.rows[i].PrintFileName)]_vars

\* a dry run has written the ledger while a job is pending and nothing is printed
C13_Witness ==
    /\ AtDryRun("reload") /\ Top.wrote = "ok" /\ has_job /\ files = {}
    /\ ledger.rows /= <<>> /\ alerts = {Alert("csv_updated_dry_run", FALSE)}

\* C14: no cleanup script deletes anything without confirmation: the document
\* changes and a transaction is started only by the step that answers Yes to
\* the script's question; the question is put only on an open document with
\* candidates; every other answer, no active document and no candidate leave
\* the document as it is with no transaction started.
C14_DeletesOnlyAfterYes ==
    /\ [][(revit_doc' /= revit_doc \/ transactions' /= transactions)
            => (cleanup.pc = "confirm" /\ cleanup'.res = "Yes")]_vars
    /\ [](cleanup.pc = "confirm"
            => /\ revit_doc.open
               /\ cleanup.ids_to_delete /= {}
               /\ cleanup.ids_to_delete \subseteq ToElementIds(revit_doc.elements))
    /\ [][(\/ cleanup.pc \in {"no_document", "none_found"}
           \/ cleanup.pc = "confirm" /\ cleanup'.res /= "Yes")
            => (revit_doc' = revit_doc /\ transactions' = transactions)]_vars
    /\ [](cleanup.pc = "no_document" => ~revit_doc.open)
    /\ [](cleanup.pc = "none_found"
            => CollectIds(cleanup.name, revit_doc.elements) = {})

\* the user answered Yes: the script's elements are gone, others are left
C14_Witness ==
    /\ cleanup.pc = "done" /\ cleanup.res = "Yes"
    /\ transactions = <<DeleteDetailLinesGroups>>
    /\ revit_doc.elements /= {}
    /\ ToElementIds(revit_doc.elements) \cap cleanup.ids_to_delete = {}

\* the runs of _run_print in progress: entered and not yet returned
RunsInProgress ==
    {k \in DOMAIN stack : stack[k].kind = "run" /\ stack[k].pc /= "targets"}

\* C15: no two print runs overlap: the scheduler starts a job's run only when
\* no other print run, manual or scheduled, is in progress.
C15_NoOverlappingRuns == [][startLog' /= startLog => RunsInProgress = {}]_vars

====
